---- MODULE Spec2Model ----
(***************************************************************************)
(* Model of the parallel directory search of cmd/file_search.go:           *)
(* parallelWalk (worker pool, bounded dirQueue, pending WaitGroup, closer  *)
(* goroutine), walkInline (the synchronous fallback) and runSearch.        *)
(*                                                                         *)
(* A Go string is a sequence of one-character strings; the file system is  *)
(* a static tree chosen by Init from the table Trees.  One action is one   *)
(* access to shared memory (channel, WaitGroup, mutex, atomic counter)     *)
(* together with the goroutine-local code around it.                       *)
(***************************************************************************)
EXTENDS Integers, Sequences, FiniteSets, TLC

\* --------------------------------------------------------------- strings

\* The bytes used by the model, in ascending ASCII order.
Alphabet ==
    << " ", "$", "(", ")", ".", "/",
       "0", "1", "2", "3", "4", "5", "6", "7", "8", "9",
       "A", "B", "C", "D", "E", "F", "G", "H", "I", "J", "K", "L", "M",
       "N", "O", "P", "Q", "R", "S", "T", "U", "V", "W", "X", "Y", "Z",
       "_",
       "a", "b", "c", "d", "e", "f", "g", "h", "i", "j", "k", "l", "m",
       "n", "o", "p", "q", "r", "s", "t", "u", "v", "w", "x", "y", "z" >>

Chars == { Alphabet[i] : i \in DOMAIN Alphabet }

\* Position of a byte in ASCII order (order-isomorphic to its code).
Ord == [ c \in Chars |-> CHOOSE i \in DOMAIN Alphabet : Alphabet[i] = c ]

\* unicode.ToLower on one ASCII byte: 'A'..'Z' move to 'a'..'z'.
LowerChar ==
    [ c \in Chars |->
        IF Ord[c] >= Ord["A"] /\ Ord[c] <= Ord["Z"]
        THEN Alphabet[Ord[c] - Ord["A"] + Ord["a"]]
        ELSE c ]

\* strings.ToLower
ToLower(s) == [ i \in 1..Len(s) |-> LowerChar[s[i]] ]

\* strings.Contains: the empty substring is contained in every string.
Contains(s, sub) ==
    \E i \in 1..(Len(s) - Len(sub) + 1) : SubSeq(s, i, i + Len(sub) - 1) = sub

\* Go's < on strings: bytewise lexicographic, a proper prefix is smaller.
StrLess(a, b) ==
    \E k \in 1..(Len(b)) :
        /\ k <= Len(a) + 1
        /\ SubSeq(a, 1, k - 1) = SubSeq(b, 1, k - 1)
        /\ \/ k = Len(a) + 1
           \/ (k <= Len(a) /\ Ord[a[k]] < Ord[b[k]])

\* The last path segment.
Basename(p) ==
    LET cut == { k \in 1..Len(p) : p[k] = "/" } \cup {0}
        m == CHOOSE k \in cut : \A j \in cut : j <= k
    IN  SubSeq(p, m + 1, Len(p))

\* filepath.Join(dir, name) on a '/'-separated system, for a clean dir and
\* an entry name returned by ReadDir.
Join(dir, name) ==
    IF Len(dir) > 0 /\ dir[Len(dir)] = "/" THEN dir \o name
    ELSE dir \o <<"/">> \o name

\* Mutant: the list is returned in append order.
NoSort(s) == s

\* sort.Strings: the strings of s in ascending order.  The string at index
\* i goes to position 1 + the number of strings that sort before it (equal
\* strings keep their order, which no caller can observe).
SortStrings(s) ==
    LET before(i) == { j \in DOMAIN s : StrLess(s[j], s[i]) \/ (s[j] = s[i] /\ j < i) }
    IN  [ k \in DOMAIN s |-> s[CHOOSE i \in DOMAIN s : Cardinality(before(i)) = k - 1] ]

\* ----------------------------------------------------------- file system

\* The static directory trees.  A node is an entry beneath root: parent is
\* the index of its directory (0 = root), dir says whether it is a
\* directory, ok whether os.ReadDir succeeds on it.
Trees ==
    << \* 1: /r/xd/{xa, xb}
       [ root |-> <<"/", "r">>, rootOk |-> TRUE,
         nodes |-> << [parent |-> 0, name |-> <<"x", "d">>, dir |-> TRUE,  ok |-> TRUE],
                      [parent |-> 1, name |-> <<"x", "a">>, dir |-> FALSE, ok |-> TRUE],
                      [parent |-> 1, name |-> <<"x", "b">>, dir |-> FALSE, ok |-> TRUE] >> ],
       \* 2: /r/d/{xa, xb/, xc}
       [ root |-> <<"/", "r">>, rootOk |-> TRUE,
         nodes |-> << [parent |-> 0, name |-> <<"d">>,      dir |-> TRUE,  ok |-> TRUE],
                      [parent |-> 1, name |-> <<"x", "a">>, dir |-> FALSE, ok |-> TRUE],
                      [parent |-> 1, name |-> <<"x", "b">>, dir |-> TRUE,  ok |-> TRUE],
                      [parent |-> 1, name |-> <<"x", "c">>, dir |-> FALSE, ok |-> TRUE] >> ],
       \* 3: /r/xd/{xa, xb, xc, xe}
       [ root |-> <<"/", "r">>, rootOk |-> TRUE,
         nodes |-> << [parent |-> 0, name |-> <<"x", "d">>, dir |-> TRUE,  ok |-> TRUE],
                      [parent |-> 1, name |-> <<"x", "a">>, dir |-> FALSE, ok |-> TRUE],
                      [parent |-> 1, name |-> <<"x", "b">>, dir |-> FALSE, ok |-> TRUE],
                      [parent |-> 1, name |-> <<"x", "c">>, dir |-> FALSE, ok |-> TRUE],
                      [parent |-> 1, name |-> <<"x", "e">>, dir |-> FALSE, ok |-> TRUE] >> ],
       \* 4: /r/{Xd/{e/{Ti}, q/ (unreadable)}, .git/{i}, bin (a file)}
       [ root |-> <<"/", "r">>, rootOk |-> TRUE,
         nodes |-> << [parent |-> 0, name |-> <<"X", "d">>, dir |-> TRUE,  ok |-> TRUE],
                      [parent |-> 1, name |-> <<"e">>,      dir |-> TRUE,  ok |-> TRUE],
                      [parent |-> 2, name |-> <<"T", "i">>, dir |-> FALSE, ok |-> TRUE],
                      [parent |-> 1, name |-> <<"q">>,      dir |-> TRUE,  ok |-> FALSE],
                      [parent |-> 0, name |-> <<".", "g", "i", "t">>, dir |-> TRUE, ok |-> TRUE],
                      [parent |-> 5, name |-> <<"i">>,      dir |-> FALSE, ok |-> TRUE],
                      [parent |-> 0, name |-> <<"b", "i", "n">>, dir |-> FALSE, ok |-> TRUE] >> ],
       \* 5: a root that cannot be read
       [ root |-> <<"/", "n">>, rootOk |-> FALSE, nodes |-> << >> ],
       \* 6: abc/report.txt, .git/config, node_modules/pkg/index.js, ABC123/
       [ root |-> <<"/", "r">>, rootOk |-> TRUE,
         nodes |-> <<
           [parent |-> 0, name |-> <<"a", "b", "c">>, dir |-> TRUE, ok |-> TRUE],
           [parent |-> 1, name |-> <<"r", "e", "p", "o", "r", "t", ".", "t", "x", "t">>, dir |-> FALSE, ok |-> TRUE],
           [parent |-> 0, name |-> <<".", "g", "i", "t">>, dir |-> TRUE, ok |-> TRUE],
           [parent |-> 3, name |-> <<"c", "o", "n", "f", "i", "g">>, dir |-> FALSE, ok |-> TRUE],
           [parent |-> 0, name |-> <<"n", "o", "d", "e", "_", "m", "o", "d", "u", "l", "e", "s">>, dir |-> TRUE, ok |-> TRUE],
           [parent |-> 5, name |-> <<"p", "k", "g">>, dir |-> TRUE, ok |-> TRUE],
           [parent |-> 6, name |-> <<"i", "n", "d", "e", "x", ".", "j", "s">>, dir |-> FALSE, ok |-> TRUE],
           [parent |-> 0, name |-> <<"A", "B", "C", "1", "2", "3">>, dir |-> TRUE, ok |-> TRUE] >> ],
       \* 7: a root named like a pruned directory: /.git/xd/xa
       [ root |-> <<"/", ".", "g", "i", "t">>, rootOk |-> TRUE,
         nodes |-> << [parent |-> 0, name |-> <<"x", "d">>, dir |-> TRUE,  ok |-> TRUE],
                      [parent |-> 1, name |-> <<"x", "a">>, dir |-> FALSE, ok |-> TRUE] >> ]
    >>

TreeIds == DOMAIN Trees

\* Absolute path of node i of tree t.
RECURSIVE PathOf(_, _)
PathOf(t, i) ==
    LET n == Trees[t].nodes[i]
    IN  IF n.parent = 0 THEN Join(Trees[t].root, n.name)
        ELSE Join(PathOf(t, n.parent), n.name)

NodePath == [ t \in TreeIds |-> [ i \in DOMAIN Trees[t].nodes |-> PathOf(t, i) ] ]

\* The children of node i (0 = root) as os.ReadDir returns them: sorted by
\* file name.
RECURSIVE SortedByName(_, _)
SortedByName(t, S) ==
    IF S = {} THEN <<>>
    ELSE LET m == CHOOSE i \in S :
                    \A j \in S \ {i} : StrLess(Trees[t].nodes[i].name, Trees[t].nodes[j].name)
         IN  <<m>> \o SortedByName(t, S \ {m})

Listing ==
    [ t \in TreeIds |->
        [ i \in 0..Len(Trees[t].nodes) |->
            LET ch == SortedByName(t, { j \in DOMAIN Trees[t].nodes : Trees[t].nodes[j].parent = i })
            IN  [ k \in 1..Len(ch) |->
                    [ name |-> Trees[t].nodes[ch[k]].name, dir |-> Trees[t].nodes[ch[k]].dir ] ] ] ]

\* os.ReadDir(path): the entries (name, IsDir) sorted by name, or an error
\* when the path is missing, is no directory or cannot be read.
ReadDir(t, path) ==
    LET T == Trees[t]
        hit == { i \in DOMAIN T.nodes : NodePath[t][i] = path }
    IN  IF path = T.root
        THEN IF T.rootOk THEN [err |-> FALSE, entries |-> Listing[t][0]]
             ELSE [err |-> TRUE, entries |-> <<>>]
        ELSE IF hit = {} THEN [err |-> TRUE, entries |-> <<>>]
        ELSE LET i == CHOOSE j \in hit : TRUE
             IN  IF T.nodes[i].dir /\ T.nodes[i].ok
                 THEN [err |-> FALSE, entries |-> Listing[t][i]]
                 ELSE [err |-> TRUE, entries |-> <<>>]

\* ------------------------------------------------------------ classifier

ModeBoth == "Both"
ModeFiles == "Files"
ModeFolders == "Folders"
SearchMode == {ModeBoth, ModeFiles, ModeFolders}

\* The table of directory names skipped by the search (lowercased).
skipDirs ==
    { <<"$","r","e","c","y","c","l","e",".","b","i","n">>,
      <<"s","y","s","t","e","m"," ","v","o","l","u","m","e"," ","i","n","f","o","r","m","a","t","i","o","n">>,
      <<"w","i","n","d","o","w","s">>,
      <<"p","r","o","g","r","a","m"," ","f","i","l","e","s">>,
      <<"p","r","o","g","r","a","m"," ","f","i","l","e","s"," ","(","x","8","6",")">>,
      <<"p","r","o","g","r","a","m","d","a","t","a">>,
      <<".","g","i","t">>,
      <<"n","o","d","e","_","m","o","d","u","l","e","s">>,
      <<".","c","a","c","h","e">>,
      <<".","t","m","p">>,
      <<"_","_","p","y","c","a","c","h","e","_","_">>,
      <<".","v","s">>,
      <<".","i","d","e","a">>,
      <<".","g","r","a","d","l","e">>,
      <<"v","e","n","d","o","r">>,
      <<"d","i","s","t">>,
      <<"o","b","j">>,
      <<"b","i","n">> }

\* The name test of the three prune checks.
SkipName(nameLower) ==
    nameLower \in skipDirs \/ (Len(nameLower) > 0 /\ nameLower[1] = ".")

\* Mutant: the IsDir test of the prune check inverted.
PruneWorkerNotDir(e, skipSystemDirs) ==
    ~e.dir /\ skipSystemDirs /\ SkipName(ToLower(e.name))

\* Worker loop, lines 208-212: skip system/hidden directories.
PruneWorker(e, skipSystemDirs) ==
    e.dir /\ skipSystemDirs /\ SkipName(ToLower(e.name))

\* Mutant: the seeding loop submits every first-level directory.
PruneSeedOff(e, skipSystemDirs) == FALSE

\* Seeding loop, lines 259-263 (reached for directories only).
PruneSeed(e, skipSystemDirs) ==
    skipSystemDirs /\ SkipName(ToLower(e.name))

\* walkInline, lines 295-299.
PruneInline(e, skipSystemDirs) ==
    e.dir /\ skipSystemDirs /\ SkipName(ToLower(e.name))

\* The switch on mode of both match checks.
ModeOk(mode, isDir) ==
    CASE mode = ModeBoth -> TRUE
      [] mode = ModeFiles -> ~isDir
      [] mode = ModeFolders -> isDir
      [] OTHER -> FALSE

\* Mutant: the worker compares the needle with the entry's name only.
IsMatchWorkerNameOnly(e, dir, query, mode) ==
    Contains(ToLower(e.name), query) /\ ModeOk(mode, e.dir)

\* Worker loop, lines 230-240: the match check of entry e of directory dir.
IsMatchWorker(e, dir, query, mode) ==
    /\ \/ Contains(ToLower(e.name), query)
       \/ Contains(ToLower(Join(dir, e.name)), query)
    /\ ModeOk(mode, e.dir)

\* Mutant: walkInline records a match whatever the mode.
IsMatchInlineAnyKind(e, dir, query, mode) ==
    \/ Contains(ToLower(e.name), query)
    \/ Contains(ToLower(Join(dir, e.name)), query)

\* walkInline, lines 307-317.
IsMatchInline(e, dir, query, mode) ==
    /\ \/ Contains(ToLower(e.name), query)
       \/ Contains(ToLower(Join(dir, e.name)), query)
    /\ ModeOk(mode, e.dir)

\* ------------------------------------------------------------ parameters

\* const maxResults = 10000, scaled down so that the cap is reached.
maxResults == 4

\* const numWorkers = 16: the largest pool of a scenario.
numWorkers == 2

\* make(chan string, 4096): the capacity of dirQueue, scaled down so that
\* the queue fills.
queueCap == 1

\* ----------------------------------------------------------------- state

NoPanic == ""
PanicSend == "send on closed channel"
PanicClose == "close of closed channel"
PanicNegative == "sync: negative WaitGroup counter"

VARIABLES
    in,         \* the call: [fs, rawQuery, mode, skipSystemDirs, workers, cap]
    query,      \* parallelWalk's query parameter (lowercased by runSearch)
    scanned,    \* int64, atomic
    found,      \* int64, atomic
    mu,         \* sync.Mutex: 0 when free, else the worker holding it
    matched,    \* []string
    pending,    \* sync.WaitGroup counter
    dirQueue,   \* the buffered channel's contents
    closed,     \* whether dirQueue was closed
    wk,         \* per worker goroutine: [pc, st]; st is the stack of
                \* frames [dir, idx]: frame 1 is the worker's range body,
                \* the frames above it are walkInline calls
    mpc,        \* the calling goroutine's position
    topIdx,     \* the calling goroutine's index in topEntries (0: root)
    err,        \* whether the error of os.ReadDir(root) is non-nil
    cpc,        \* the closer goroutine's position
    appended,   \* history: the paths in the order they were appended
    hist,       \* history: [dequeued, listed]: the directories received
                \* from dirQueue so far, and how often os.ReadDir was
                \* called on each directory by a worker or by walkInline
    panicked,   \* "" or the Go runtime panic that ended the program
    other       \* the state of a second call of parallelWalk whose
                \* goroutines are not running at the moment (<<>>: none);
                \* the variables above are those of the call that runs

vars == << in, query, scanned, found, mu, matched, pending, dirQueue, closed,
           wk, mpc, topIdx, err, cpc, appended, hist, panicked, other >>

Workers == 1..in.workers

root == Trees[in.fs].root

\* The entries of a directory of the call's tree (<<>> on error).
Entries(dir) == ReadDir(in.fs, dir).entries

Top(st) == st[Len(st)]

Pop(st) == SubSeq(st, 1, Len(st) - 1)

Bump(st) == [st EXCEPT ![Len(st)].idx = @ + 1]

\* The entry a frame is at, and its fullPath.
Cur(f) == Entries(f.dir)[f.idx]

FullPath(f) == Join(f.dir, Cur(f).name)

\* The calls: a tree, a query as typed, a mode, the skip toggle, the pool
\* size and the queue capacity.
Scenario(fs, rawQuery, mode, skip, workers, cap) ==
    [ fs |-> fs, rawQuery |-> rawQuery, mode |-> mode, skipSystemDirs |-> skip,
      workers |-> workers, cap |-> cap ]

InitOn(S) ==
    /\ in \in S
    /\ query = <<>>
    /\ scanned = 0
    /\ found = 0
    /\ mu = 0
    /\ matched = <<>>
    /\ pending = 0
    /\ dirQueue = <<>>
    /\ closed = FALSE
    /\ wk = [ w \in 1..in.workers |-> [pc |-> "recv", st |-> <<>>] ]
    /\ mpc = "start"
    /\ topIdx = 0
    /\ err = FALSE
    /\ cpc = "none"
    /\ appended = <<>>
    /\ hist = [dequeued |-> {}, listed |-> <<>>]
    /\ panicked = NoPanic
    /\ other = <<>>

\* ------------------------------------------------------ calling goroutine

\* Mutant: root is submitted only when the prune check of the seeding loop
\* lets it pass.
RunSearchPruneRoot ==
    /\ mpc = "start" /\ panicked = NoPanic
    /\ query' = ToLower(in.rawQuery)
    /\ err' = ReadDir(in.fs, root).err
    /\ mpc' = IF in.skipSystemDirs /\ SkipName(ToLower(Basename(root)))
              THEN "go" ELSE "seedAdd"
    /\ UNCHANGED << other, hist, appended, in, scanned, found, mu, matched, pending,
                    dirQueue, closed, wk, topIdx, cpc, panicked >>

\* Mutant: runSearch passes the query as typed.
RunSearchRaw ==
    /\ mpc = "start" /\ panicked = NoPanic
    /\ query' = in.rawQuery
    /\ mpc' = "seedAdd"
    /\ UNCHANGED << other, hist, appended, in, scanned, found, mu, matched, pending, dirQueue, closed,
                    wk, topIdx, err, cpc, panicked >>

\* runSearch, lines 330-336: lowercase the query and call parallelWalk,
\* which starts the workers (lines 184-251) before it seeds the queue.
RunSearch ==
    /\ mpc = "start" /\ panicked = NoPanic
    /\ query' = ToLower(in.rawQuery)
    /\ mpc' = "seedAdd"
    /\ UNCHANGED << other, hist, appended, in, scanned, found, mu, matched, pending, dirQueue, closed,
                    wk, topIdx, err, cpc, panicked >>

\* enqueue, line 179: pending.Add(1).
SeedAdd ==
    /\ mpc = "seedAdd" /\ panicked = NoPanic
    /\ pending' = pending + 1
    /\ mpc' = "seedSend"
    /\ UNCHANGED << other, hist, appended, in, query, scanned, found, mu, matched, dirQueue, closed,
                    wk, topIdx, err, cpc, panicked >>

\* The directory the seeding loop submits at index k of topEntries.
SeedDir(k) == IF k = 0 THEN root ELSE Join(root, Entries(root)[k].name)

\* Lines 258-265: does the seeding loop submit entry e.
SeedSubmits(e, skipSystemDirs) == e.dir /\ ~PruneSeed(e, skipSystemDirs)

\* The first index from k on that the seeding loop submits (0: none).
NextSeed(k) ==
    LET es == Entries(root)
        S == { j \in k..Len(es) : SeedSubmits(es[j], in.skipSystemDirs) }
    IN  IF S = {} THEN 0 ELSE CHOOSE j \in S : \A i \in S : j <= i

\* enqueue, line 180: the blocking send dirQueue <- dir, followed by the
\* caller's local code up to its next shared access: after root, line 256
\* reads root; then the loop of lines 258-266 runs to its next enqueue.
SeedSend ==
    /\ mpc = "seedSend" /\ panicked = NoPanic
    /\ Len(dirQueue) < in.cap
    /\ IF closed
       THEN panicked' = PanicSend /\ UNCHANGED << dirQueue, err, topIdx, mpc >>
       ELSE /\ dirQueue' = Append(dirQueue, SeedDir(topIdx))
            /\ panicked' = panicked
            /\ err' = IF topIdx = 0 THEN ReadDir(in.fs, root).err ELSE err
            /\ LET n == IF topIdx = 0 /\ ReadDir(in.fs, root).err THEN 0
                        ELSE NextSeed(topIdx + 1)
               IN  IF n = 0
                   THEN mpc' = "go" /\ topIdx' = topIdx
                   ELSE mpc' = "seedAdd" /\ topIdx' = n
    /\ UNCHANGED << other, hist, appended, in, query, scanned, found, mu, matched, pending, closed, wk, cpc >>

\* Lines 270-273: start the closer goroutine, then block in wg.Wait().
GoCloser ==
    /\ mpc = "go" /\ panicked = NoPanic
    /\ cpc' = "wait"
    /\ mpc' = "wgwait"
    /\ UNCHANGED << other, hist, appended, in, query, scanned, found, mu, matched, pending, dirQueue,
                    closed, wk, topIdx, err, panicked >>

\* Lines 275-278: wg.Wait() returns once every worker has called wg.Done;
\* sort.Strings(matched); return.
Return ==
    /\ mpc = "wgwait" /\ panicked = NoPanic
    /\ \A w \in Workers : wk[w].pc = "exited"
    /\ matched' = SortStrings(matched)
    /\ mpc' = "returned"
    /\ UNCHANGED << other, hist, appended, in, query, scanned, found, mu, pending, dirQueue, closed,
                    wk, topIdx, err, cpc, panicked >>

\* ------------------------------------------------------- closer goroutine

\* Mutant: the closer does not wait for the pending counter.
CloserNoWait ==
    /\ cpc = "wait" /\ panicked = NoPanic
    /\ cpc' = "close"
    /\ UNCHANGED << other, hist, appended, in, query, scanned, found, mu, matched, pending, dirQueue,
                    closed, wk, mpc, topIdx, err, panicked >>

\* Line 271: pending.Wait() returns when the counter is zero.
CloserWait ==
    /\ cpc = "wait" /\ panicked = NoPanic
    /\ pending = 0
    /\ cpc' = "close"
    /\ UNCHANGED << other, hist, appended, in, query, scanned, found, mu, matched, pending, dirQueue,
                    closed, wk, mpc, topIdx, err, panicked >>

\* Line 272: close(dirQueue).
CloserClose ==
    /\ cpc = "close" /\ panicked = NoPanic
    /\ IF closed THEN panicked' = PanicClose /\ closed' = closed
       ELSE closed' = TRUE /\ panicked' = panicked
    /\ cpc' = "closed"
    /\ UNCHANGED << other, hist, appended, in, query, scanned, found, mu, matched, pending, dirQueue,
                    wk, mpc, topIdx, err >>

\* ------------------------------------------------------ worker goroutines

\* The match check that ends an entry's iteration, for the frame on top of
\* st: frame 1 runs lines 230-246 of the worker, a higher frame lines
\* 307-323 of walkInline.  A match goes on to mu.Lock(), anything else to
\* the next entry.
AfterSubmit(st) ==
    LET f == Top(st)
        hit == IF Len(st) = 1
               THEN IsMatchWorker(Cur(f), f.dir, query, in.mode)
               ELSE IsMatchInline(Cur(f), f.dir, query, in.mode)
    IN  IF hit THEN [pc |-> "lock", st |-> st]
        ELSE [pc |-> "loop", st |-> Bump(st)]

\* Mutant: the worker forgets pending.Done() after an inline walk.
InlineReturnNoDone(st) == AfterSubmit(Pop(st))

\* walkInline returns: to the worker's line 225 (pending.Done) when the
\* worker called it, to the match check after line 304 when walkInline did.
InlineReturn(st) ==
    IF Len(st) = 2 THEN [pc |-> "idone", st |-> Pop(st)]
    ELSE AfterSubmit(Pop(st))

\* The call walkInline(fullPath, ...) of line 224 or 304, up to its first
\* loop head: lines 283-286 return at once on a read error.
InlineCall(st) ==
    LET p == FullPath(Top(st))
    IN  IF ReadDir(in.fs, p).err
        THEN InlineReturn(Append(st, [dir |-> p, idx |-> 0]))
        ELSE [pc |-> "loop", st |-> Append(st, [dir |-> p, idx |-> 1])]

\* The history after os.ReadDir(p) was called by a worker (line 193) or by
\* walkInline (line 283).
AfterList(h, p) ==
    [h EXCEPT !.listed = IF p \in DOMAIN @ THEN [@ EXCEPT ![p] = @ + 1]
                         ELSE (p :> 1) @@ @]

\* The history after p was received from dirQueue (line 188).
AfterDequeue(h, p) == [h EXCEPT !.dequeued = @ \cup {p}]

\* Mutant: the worker's read assigns parallelWalk's err.
WorkerReadErrShared(outer, failed) == outer \/ failed

\* Line 193, entries, err := os.ReadDir(dir): the := declares an err of
\* the loop body, so parallelWalk's err is what it was whether the read
\* failed or not.
WorkerReadErr(outer, failed) == outer

\* Line 188: receive a directory from dirQueue.
Recv(w) ==
    /\ wk[w].pc = "recv" /\ panicked = NoPanic
    /\ dirQueue # <<>>
    /\ wk' = [wk EXCEPT ![w] = [pc |-> "chk", st |-> <<[dir |-> Head(dirQueue), idx |-> 0]>>]]
    /\ dirQueue' = Tail(dirQueue)
    /\ hist' = AfterDequeue(hist, Head(dirQueue))
    /\ UNCHANGED << other, appended, in, query, scanned, found, mu, matched, pending, closed,
                    mpc, topIdx, err, cpc, panicked >>

\* Line 188 on the closed and drained channel: the range loop ends and the
\* deferred wg.Done() of line 187 runs.
Exit(w) ==
    /\ wk[w].pc = "recv" /\ panicked = NoPanic
    /\ dirQueue = <<>> /\ closed
    /\ wk' = [wk EXCEPT ![w].pc = "exited"]
    /\ UNCHANGED << other, hist, appended, in, query, scanned, found, mu, matched, pending, dirQueue,
                    closed, mpc, topIdx, err, cpc, panicked >>

\* Has the found counter reached the cap (lines 189, 199, 288).
CapReached(n) == n >= maxResults

\* Mutant: the worker takes the next directory after a failed os.ReadDir
\* without pending.Done().
ChkErrNoDone(w) ==
    /\ wk[w].pc = "chk" /\ panicked = NoPanic
    /\ LET d == Top(wk[w].st).dir
       IN  /\ wk' = [wk EXCEPT ![w] =
                    IF CapReached(found) THEN [pc |-> "pdone", st |-> @.st]
                    ELSE IF ReadDir(in.fs, d).err THEN [pc |-> "recv", st |-> <<>>]
                    ELSE [pc |-> "loop", st |-> <<[dir |-> d, idx |-> 1]>>]]
           /\ hist' = IF CapReached(found) THEN hist ELSE AfterList(hist, d)
    /\ UNCHANGED << other, appended, in, query, scanned, found, mu, matched, pending, dirQueue,
                    closed, mpc, topIdx, err, cpc, panicked >>

\* Mutant: the worker lists a dequeued directory without the cap check.
ChkNoCap(w) ==
    /\ wk[w].pc = "chk" /\ panicked = NoPanic
    /\ LET d == Top(wk[w].st).dir
       IN  /\ wk' = [wk EXCEPT ![w] =
                    IF ReadDir(in.fs, d).err
                    THEN [pc |-> "pdone", st |-> @.st]
                    ELSE [pc |-> "loop", st |-> <<[dir |-> d, idx |-> 1]>>]]
           /\ hist' = AfterList(hist, d)
    /\ UNCHANGED << other, appended, in, query, scanned, found, mu, matched, pending, dirQueue,
                    closed, mpc, topIdx, err, cpc, panicked >>

\* Lines 189-197: the cap check of a dequeued directory, then os.ReadDir.
Chk(w) ==
    /\ wk[w].pc = "chk" /\ panicked = NoPanic
    /\ LET d == Top(wk[w].st).dir
       IN  /\ wk' = [wk EXCEPT ![w] =
                    IF CapReached(found) \/ ReadDir(in.fs, d).err
                    THEN [pc |-> "pdone", st |-> @.st]
                    ELSE [pc |-> "loop", st |-> <<[dir |-> d, idx |-> 1]>>]]
           /\ hist' = IF CapReached(found) THEN hist ELSE AfterList(hist, d)
           /\ err' = IF CapReached(found) THEN err
                     ELSE WorkerReadErr(err, ReadDir(in.fs, d).err)
    /\ UNCHANGED << other, appended, in, query, scanned, found, mu, matched, pending, dirQueue,
                    closed, mpc, topIdx, cpc, panicked >>

\* Mutant: the prune check comes before scanned++.
LoopPruneFirst(w) ==
    /\ wk[w].pc = "loop" /\ panicked = NoPanic
    /\ LET st == wk[w].st
           f == Top(st)
           inline == Len(st) > 1
       IN  IF f.idx > Len(Entries(f.dir)) \/ CapReached(found)
           THEN /\ wk' = [wk EXCEPT ![w] =
                            IF inline THEN InlineReturn(st)
                            ELSE [pc |-> "pdone", st |-> st]]
                /\ scanned' = scanned
                /\ hist' = hist
           ELSE /\ scanned' = IF (IF inline THEN PruneInline(Cur(f), in.skipSystemDirs)
                                 ELSE PruneWorker(Cur(f), in.skipSystemDirs))
                             THEN scanned ELSE scanned + 1
                /\ hist' = IF inline /\ Cur(f).dir
                              /\ ~PruneInline(Cur(f), in.skipSystemDirs)
                           THEN AfterList(hist, FullPath(f)) ELSE hist
                /\ wk' = [wk EXCEPT ![w] =
                            IF inline
                            THEN IF PruneInline(Cur(f), in.skipSystemDirs)
                                 THEN [pc |-> "loop", st |-> Bump(st)]
                                 ELSE IF Cur(f).dir THEN InlineCall(st)
                                 ELSE AfterSubmit(st)
                            ELSE IF PruneWorker(Cur(f), in.skipSystemDirs)
                                 THEN [pc |-> "loop", st |-> Bump(st)]
                                 ELSE IF Cur(f).dir THEN [pc |-> "add", st |-> st]
                                 ELSE AfterSubmit(st)]
    /\ UNCHANGED << other, appended, in, query, found, mu, matched, pending, dirQueue, closed,
                    mpc, topIdx, err, cpc, panicked >>

\* One loop head: the worker's lines 198-217 (frame 1) or walkInline's
\* lines 287-305 (a higher frame): end of the entries, the cap check,
\* scanned++, the prune check, and for a directory the step towards its
\* submission (worker) or the recursive call (walkInline).
Loop(w) ==
    /\ wk[w].pc = "loop" /\ panicked = NoPanic
    /\ LET st == wk[w].st
           f == Top(st)
           inline == Len(st) > 1
       IN  IF f.idx > Len(Entries(f.dir)) \/ CapReached(found)
           THEN /\ wk' = [wk EXCEPT ![w] =
                            IF inline THEN InlineReturn(st)
                            ELSE [pc |-> "pdone", st |-> st]]
                /\ scanned' = scanned
                /\ hist' = hist
           ELSE /\ scanned' = scanned + 1
                /\ hist' = IF inline /\ Cur(f).dir
                              /\ ~PruneInline(Cur(f), in.skipSystemDirs)
                           THEN AfterList(hist, FullPath(f)) ELSE hist
                /\ wk' = [wk EXCEPT ![w] =
                            IF inline
                            THEN IF PruneInline(Cur(f), in.skipSystemDirs)
                                 THEN [pc |-> "loop", st |-> Bump(st)]
                                 ELSE IF Cur(f).dir THEN InlineCall(st)
                                 ELSE AfterSubmit(st)
                            ELSE IF PruneWorker(Cur(f), in.skipSystemDirs)
                                 THEN [pc |-> "loop", st |-> Bump(st)]
                                 ELSE IF Cur(f).dir THEN [pc |-> "add", st |-> st]
                                 ELSE AfterSubmit(st)]
    /\ UNCHANGED << other, appended, in, query, found, mu, matched, pending, dirQueue, closed,
                    mpc, topIdx, err, cpc, panicked >>

\* Mutant: the worker goes to its select without pending.Add(1).
AddSkipped(w) ==
    /\ wk[w].pc = "add" /\ panicked = NoPanic
    /\ wk' = [wk EXCEPT ![w].pc = "send"]
    /\ UNCHANGED << other, hist, appended, in, query, scanned, found, mu, matched, pending,
                    dirQueue, closed, mpc, topIdx, err, cpc, panicked >>

\* Line 218: pending.Add(1) for the subdirectory.
Add(w) ==
    /\ wk[w].pc = "add" /\ panicked = NoPanic
    /\ pending' = pending + 1
    /\ wk' = [wk EXCEPT ![w].pc = "send"]
    /\ UNCHANGED << other, hist, appended, in, query, scanned, found, mu, matched, dirQueue, closed,
                    mpc, topIdx, err, cpc, panicked >>

\* Mutant: the worker's send waits for room in the queue.
SendBlocking(w) ==
    /\ wk[w].pc = "send" /\ panicked = NoPanic
    /\ Len(dirQueue) < in.cap
    /\ LET st == wk[w].st
       IN  IF closed
           THEN panicked' = PanicSend /\ UNCHANGED << dirQueue, wk >>
           ELSE /\ panicked' = panicked
                /\ dirQueue' = Append(dirQueue, FullPath(Top(st)))
                /\ wk' = [wk EXCEPT ![w] = AfterSubmit(st)]
    /\ UNCHANGED << other, hist, appended, in, query, scanned, found, mu, matched, pending,
                    closed, mpc, topIdx, err, cpc >>

\* Lines 219-226: the select: send when the queue has room, else call
\* walkInline on the subdirectory.
Send(w) ==
    /\ wk[w].pc = "send" /\ panicked = NoPanic
    /\ LET st == wk[w].st
       IN  IF closed
           THEN panicked' = PanicSend /\ UNCHANGED << dirQueue, wk, hist >>
           ELSE /\ panicked' = panicked
                /\ IF Len(dirQueue) < in.cap
                   THEN /\ dirQueue' = Append(dirQueue, FullPath(Top(st)))
                        /\ wk' = [wk EXCEPT ![w] = AfterSubmit(st)]
                        /\ hist' = hist
                   ELSE /\ dirQueue' = dirQueue
                        /\ wk' = [wk EXCEPT ![w] = InlineCall(st)]
                        /\ hist' = AfterList(hist, FullPath(Top(st)))
    /\ UNCHANGED << other, appended, in, query, scanned, found, mu, matched, pending, closed,
                    mpc, topIdx, err, cpc >>

\* sync.WaitGroup.Done: a counter below zero panics.
Done(n) == n - 1

\* Mutant: no pending.Done() follows the inline walk.
InlineDoneSkipped(w) ==
    /\ wk[w].pc = "idone" /\ panicked = NoPanic
    /\ wk' = [wk EXCEPT ![w] = AfterSubmit(@.st)]
    /\ UNCHANGED << other, hist, appended, in, query, scanned, found, mu, matched, pending,
                    dirQueue, closed, mpc, topIdx, err, cpc, panicked >>

\* Line 225: pending.Done() after the inline walk returned.
InlineDone(w) ==
    /\ wk[w].pc = "idone" /\ panicked = NoPanic
    /\ pending' = Done(pending)
    /\ panicked' = IF Done(pending) < 0 THEN PanicNegative ELSE panicked
    /\ wk' = [wk EXCEPT ![w] = AfterSubmit(@.st)]
    /\ UNCHANGED << other, hist, appended, in, query, scanned, found, mu, matched, dirQueue, closed,
                    mpc, topIdx, err, cpc >>

\* Mutant: the append is not preceded by mu.Lock().
LockSkipped(w) ==
    /\ wk[w].pc = "lock" /\ panicked = NoPanic
    /\ wk' = [wk EXCEPT ![w].pc = "append"]
    /\ UNCHANGED << other, hist, appended, in, query, scanned, found, mu, matched, pending,
                    dirQueue, closed, mpc, topIdx, err, cpc, panicked >>

\* Lines 241 and 318: mu.Lock().
Lock(w) ==
    /\ wk[w].pc = "lock" /\ panicked = NoPanic
    /\ mu = 0
    /\ mu' = w
    /\ wk' = [wk EXCEPT ![w].pc = "append"]
    /\ UNCHANGED << other, hist, appended, in, query, scanned, found, matched, pending, dirQueue,
                    closed, mpc, topIdx, err, cpc, panicked >>

\* Mutant: walkInline appends to a copy of the slice header, so its append
\* does not reach parallelWalk's matched.
AppendMatchByValue(w) ==
    /\ wk[w].pc = "append" /\ panicked = NoPanic
    /\ matched' = IF Len(wk[w].st) > 1 THEN matched
                  ELSE Append(matched, FullPath(Top(wk[w].st)))
    /\ appended' = Append(appended, FullPath(Top(wk[w].st)))
    /\ mu' = 0
    /\ wk' = [wk EXCEPT ![w].pc = "inc"]
    /\ UNCHANGED << other, hist, in, query, scanned, found, pending, dirQueue, closed,
                    mpc, topIdx, err, cpc, panicked >>

\* Lines 242-243 and 319-320: append fullPath, mu.Unlock().
AppendMatch(w) ==
    /\ wk[w].pc = "append" /\ panicked = NoPanic
    /\ matched' = Append(matched, FullPath(Top(wk[w].st)))
    /\ appended' = Append(appended, FullPath(Top(wk[w].st)))
    /\ mu' = 0
    /\ wk' = [wk EXCEPT ![w].pc = "inc"]
    /\ UNCHANGED << other, hist, in, query, scanned, found, pending, dirQueue, closed,
                    mpc, topIdx, err, cpc, panicked >>

\* Mutant: the append is not followed by the increment of found.
IncSkipped(w) ==
    /\ wk[w].pc = "inc" /\ panicked = NoPanic
    /\ wk' = [wk EXCEPT ![w] = [pc |-> "loop", st |-> Bump(@.st)]]
    /\ UNCHANGED << other, hist, appended, in, query, scanned, found, mu, matched, pending,
                    dirQueue, closed, mpc, topIdx, err, cpc, panicked >>

\* Lines 244 and 321: atomic.AddInt64(&found, 1), then the next entry.
Inc(w) ==
    /\ wk[w].pc = "inc" /\ panicked = NoPanic
    /\ found' = found + 1
    /\ wk' = [wk EXCEPT ![w] = [pc |-> "loop", st |-> Bump(@.st)]]
    /\ UNCHANGED << other, hist, appended, in, query, scanned, mu, matched, pending, dirQueue, closed,
                    mpc, topIdx, err, cpc, panicked >>

\* Lines 190, 195 and 248: pending.Done() for the dequeued directory.
PDone(w) ==
    /\ wk[w].pc = "pdone" /\ panicked = NoPanic
    /\ pending' = Done(pending)
    /\ panicked' = IF Done(pending) < 0 THEN PanicNegative ELSE panicked
    /\ wk' = [wk EXCEPT ![w] = [pc |-> "recv", st |-> <<>>]]
    /\ UNCHANGED << other, hist, appended, in, query, scanned, found, mu, matched, dirQueue, closed,
                    mpc, topIdx, err, cpc >>

\* ---------------------------------------------------------- specification

Next ==
    \/ RunSearch
    \/ SeedAdd
    \/ SeedSend
    \/ GoCloser
    \/ Return
    \/ CloserWait
    \/ CloserClose
    \/ \E w \in Workers : Recv(w)
    \/ \E w \in Workers : Exit(w)
    \/ \E w \in Workers : Chk(w)
    \/ \E w \in Workers : Loop(w)
    \/ \E w \in Workers : Add(w)
    \/ \E w \in Workers : Send(w)
    \/ \E w \in Workers : InlineDone(w)
    \/ \E w \in Workers : Lock(w)
    \/ \E w \in Workers : AppendMatch(w)
    \/ \E w \in Workers : Inc(w)
    \/ \E w \in Workers : PDone(w)

qx == <<"x">>

qI == <<"I">>

qabc == <<"a", "b", "c">>

qq == <<"q">>

\* A queue capacity larger than the number of directories of tree fs, so
\* that no send finds the queue full.
RoomyCap(fs) == Len(Trees[fs].nodes) + 2

\* The calls of the specifications.
Scenarios ==
    { Scenario(1, qx, ModeBoth, TRUE, numWorkers, queueCap),
      Scenario(1, qx, ModeBoth, TRUE, 1, queueCap),
      Scenario(2, qx, ModeBoth, TRUE, numWorkers, queueCap),
      Scenario(2, qx, ModeFiles, TRUE, numWorkers, queueCap),
      Scenario(2, qx, ModeFolders, TRUE, numWorkers, queueCap),
      Scenario(3, qx, ModeBoth, TRUE, 2, queueCap),
      Scenario(4, qI, ModeBoth, TRUE, 2, queueCap),
      Scenario(4, qI, ModeBoth, FALSE, 1, queueCap),
      Scenario(5, qx, ModeBoth, TRUE, numWorkers, queueCap),
      Scenario(6, qabc, ModeBoth, TRUE, numWorkers, queueCap),
      Scenario(4, qq, ModeBoth, FALSE, 1, queueCap),
      Scenario(2, qx, ModeBoth, TRUE, 2, RoomyCap(2)),
      Scenario(7, qx, ModeBoth, TRUE, 2, queueCap) }

Init == InitOn(Scenarios)

Spec == Init /\ [][Next]_vars

\* Under weak fairness of every goroutine (the Go scheduler runs every
\* runnable goroutine).
\* The calls of the fair specification: a tree walked twice by the pool,
\* a tree with more matches than maxResults, a tree with an unreadable
\* subdirectory and more directories than the queue holds, an unreadable
\* root.
FairScenarios ==
    { Scenario(1, qx, ModeBoth, TRUE, numWorkers, queueCap),
      Scenario(3, qx, ModeBoth, TRUE, 1, queueCap),
      Scenario(4, qI, ModeBoth, TRUE, 1, queueCap),
      Scenario(4, qI, ModeBoth, FALSE, 1, queueCap),
      Scenario(5, qx, ModeBoth, TRUE, numWorkers, queueCap) }

FairInit == InitOn(FairScenarios)

FairSpec ==
    /\ FairInit /\ [][Next]_vars
    /\ WF_vars(RunSearch \/ SeedAdd \/ SeedSend \/ GoCloser \/ Return)
    /\ WF_vars(CloserWait \/ CloserClose)
    /\ \A w \in 1..numWorkers :
          WF_vars(w \in Workers /\
                  (Recv(w) \/ Exit(w) \/ Chk(w) \/ Loop(w) \/ Add(w) \/ Send(w)
                     \/ InlineDone(w) \/ Lock(w) \/ AppendMatch(w) \/ Inc(w) \/ PDone(w)))

\* ------------------------------------------------------- two calls at once

\* The variables a call of parallelWalk declares (lines 167-175) and its
\* goroutines' positions.
CallState ==
    [ in |-> in,
      query |-> query,
      scanned |-> scanned,
      found |-> found,
      mu |-> mu,
      matched |-> matched,
      pending |-> pending,
      dirQueue |-> dirQueue,
      closed |-> closed,
      wk |-> wk,
      mpc |-> mpc,
      topIdx |-> topIdx,
      err |-> err,
      cpc |-> cpc,
      appended |-> appended,
      hist |-> hist,
      panicked |-> panicked ]

\* A call before its first step.
StartOf(c) ==
    [ in |-> c, query |-> <<>>, scanned |-> 0, found |-> 0, mu |-> 0,
      matched |-> <<>>, pending |-> 0, dirQueue |-> <<>>, closed |-> FALSE,
      wk |-> [ w \in 1..c.workers |-> [pc |-> "recv", st |-> <<>>] ],
      mpc |-> "start", topIdx |-> 0, err |-> FALSE, cpc |-> "none",
      appended |-> <<>>, hist |-> [dequeued |-> {}, listed |-> <<>>],
      panicked |-> NoPanic ]

\* Mutant: found is one counter of the package, shared by the calls.
SwitchSharedFound ==
    /\ other # <<>>
    /\ LET o == other[1]
       IN
          /\ in' = o.in
          /\ query' = o.query
          /\ scanned' = o.scanned
          /\ found' = found
          /\ mu' = o.mu
          /\ matched' = o.matched
          /\ pending' = o.pending
          /\ dirQueue' = o.dirQueue
          /\ closed' = o.closed
          /\ wk' = o.wk
          /\ mpc' = o.mpc
          /\ topIdx' = o.topIdx
          /\ err' = o.err
          /\ cpc' = o.cpc
          /\ appended' = o.appended
          /\ hist' = o.hist
          /\ panicked' = o.panicked
          /\ other' = <<[CallState EXCEPT !.found = o.found]>>

\* The scheduler goes from the goroutines of one call to those of the
\* other: each call works on the variables it declared itself.
Switch ==
    /\ other # <<>>
    /\ LET o == other[1]
       IN
          /\ in' = o.in
          /\ query' = o.query
          /\ scanned' = o.scanned
          /\ found' = o.found
          /\ mu' = o.mu
          /\ matched' = o.matched
          /\ pending' = o.pending
          /\ dirQueue' = o.dirQueue
          /\ closed' = o.closed
          /\ wk' = o.wk
          /\ mpc' = o.mpc
          /\ topIdx' = o.topIdx
          /\ err' = o.err
          /\ cpc' = o.cpc
          /\ appended' = o.appended
          /\ hist' = o.hist
          /\ panicked' = o.panicked
          /\ other' = <<CallState>>

\* Two searches started from the TUI, the second while the first runs
\* (Update, lines 418-430, starts a search on every Enter).
PairScenarios ==
    { << Scenario(4, qI, ModeBoth, TRUE, 1, queueCap),
         Scenario(4, qq, ModeBoth, FALSE, 1, queueCap) >> }

PairInit ==
    \E p \in PairScenarios :
        LET s == StartOf(p[1])
        IN
            /\ in = s.in
            /\ query = s.query
            /\ scanned = s.scanned
            /\ found = s.found
            /\ mu = s.mu
            /\ matched = s.matched
            /\ pending = s.pending
            /\ dirQueue = s.dirQueue
            /\ closed = s.closed
            /\ wk = s.wk
            /\ mpc = s.mpc
            /\ topIdx = s.topIdx
            /\ err = s.err
            /\ cpc = s.cpc
            /\ appended = s.appended
            /\ hist = s.hist
            /\ panicked = s.panicked
            /\ other = <<StartOf(p[2])>>

PairNext == Next \/ Switch

PairSpec == PairInit /\ [][PairNext]_vars

\* ------------------------------------------------- reference computations

\* The paths one complete walk of directory dir appends when no cap check
\* fires, in walk order: the entries of dir in turn, a subdirectory's walk
\* before the subdirectory itself.
RECURSIVE WalkFrom(_, _, _, _, _, _)
WalkFrom(t, dir, k, q, mode, skip) ==
    LET es == ReadDir(t, dir).entries
    IN  IF k > Len(es) THEN <<>>
        ELSE LET e == es[k]
                 p == Join(dir, e.name)
                 rest == WalkFrom(t, dir, k + 1, q, mode, skip)
             IN  IF PruneWorker(e, skip) THEN rest
                 ELSE (IF e.dir THEN WalkFrom(t, p, 1, q, mode, skip) ELSE <<>>)
                      \o (IF IsMatchWorker(e, dir, q, mode) THEN <<p>> ELSE <<>>)
                      \o rest

\* The number of entries one complete walk of dir inspects.
RECURSIVE ScanFrom(_, _, _, _)
ScanFrom(t, dir, k, skip) ==
    LET es == ReadDir(t, dir).entries
    IN  IF k > Len(es) THEN 0
        ELSE 1 + (IF es[k].dir /\ ~PruneWorker(es[k], skip)
                  THEN ScanFrom(t, Join(dir, es[k].name), 1, skip) ELSE 0)
               + ScanFrom(t, dir, k + 1, skip)

\* The first-level directories the seeding loop submits, in order.
SeededDirs(c) ==
    LET es == ReadDir(c.fs, Trees[c.fs].root).entries
    IN  SelectSeq([ k \in 1..Len(es) |-> es[k] ],
                  LAMBDA e : SeedSubmits(e, c.skipSystemDirs))

RECURSIVE Flatten(_)
Flatten(ss) == IF ss = <<>> THEN <<>> ELSE Head(ss) \o Flatten(Tail(ss))

\* Every entry beneath root that matches call c's query and mode and is
\* reachable (neither pruned nor under a pruned or unreadable directory),
\* once each: the walk of root.
TreeMatches(c, mode) ==
    WalkFrom(c.fs, Trees[c.fs].root, 1, ToLower(c.rawQuery), mode, c.skipSystemDirs)

\* Every append the submitted directories lead to when no cap check fires:
\* the walk of root and the walk of each directory the seeding loop
\* submitted.
AllAppends(c, mode) ==
    TreeMatches(c, mode)
    \o Flatten([ k \in 1..Len(SeededDirs(c)) |->
                   WalkFrom(c.fs, Join(Trees[c.fs].root, SeededDirs(c)[k].name), 1,
                            ToLower(c.rawQuery), mode, c.skipSystemDirs) ])

RECURSIVE SumSeq(_)
SumSeq(ns) == IF ns = <<>> THEN 0 ELSE Head(ns) + SumSeq(Tail(ns))

AllScans(c) ==
    ScanFrom(c.fs, Trees[c.fs].root, 1, c.skipSystemDirs)
    + SumSeq([ k \in 1..Len(SeededDirs(c)) |->
                 ScanFrom(c.fs, Join(Trees[c.fs].root, SeededDirs(c)[k].name), 1,
                          c.skipSystemDirs) ])

Range(s) == { s[i] : i \in DOMAIN s }

Returned == mpc = "returned"

IsSorted(s) == \A i, j \in DOMAIN s : i < j => ~StrLess(s[j], s[i])

\* ---------------------------------------------------------------- claims

\* C2: dirQueue is closed only when the pending counter is zero, the queue
\* is empty and no seeding, worker or inline walk is in progress; no
\* goroutine sends on the closed channel (which would panic).
C2_ClosedOnlyWhenDrained ==
    /\ panicked # PanicSend
    /\ closed =>
         /\ pending = 0
         /\ dirQueue = <<>>
         /\ mpc \in {"wgwait", "returned"}
         /\ \A w \in Workers : wk[w].pc \in {"recv", "exited"} /\ wk[w].st = <<>>

\* C2 witness: the queue was closed after a search that submitted
\* directories, walked one inline and recorded matches.
C2_Witness ==
    closed /\ cpc = "closed" /\ Len(appended) > 0 /\ in.fs = 4

\* C3: found and len(matched) never exceed maxResults.
C3_FoundWithinCap == found <= maxResults /\ Len(matched) <= maxResults

\* C5: the returned list holds no path twice.
C5_NoDuplicates ==
    Returned => \A i, j \in DOMAIN matched : i # j => matched[i] # matched[j]

\* C7: the returned list is in non-decreasing lexicographic order.
C7_ReturnedSorted == Returned => IsSorted(matched)

\* C7 witness: a returned list whose paths were appended out of order.
C7_Witness == Returned /\ ~IsSorted(appended) /\ Len(matched) = Len(appended)

\* C1: under fair scheduling every search returns: pending is zero, the
\* closer closed dirQueue (once: a second close panics), every worker left
\* its receive loop and wg.Wait() unblocked.
C1_Terminates ==
    <>( /\ Returned
        /\ pending = 0
        /\ closed /\ cpc = "closed" /\ panicked = NoPanic
        /\ \A w \in Workers : wk[w].pc = "exited" )

\* C1 witness: the search of the tree with an unreadable subdirectory and
\* more directories than the queue holds has returned.
C1_Witness ==
    /\ Returned /\ in.fs = 4 /\ in.skipSystemDirs
    /\ closed /\ pending = 0 /\ Len(matched) > 0

\* C4: a tree with more than maxResults matching entries yields exactly
\* maxResults paths.
C4_ExactlyCap ==
    (Returned /\ Len(TreeMatches(in, in.mode)) > maxResults)
        => Len(matched) = maxResults

\* C6: when the tree's matching entries number less than maxResults, the
\* returned list and scannedCount are a function of the call alone (the
\* complete result, which no cap check cut short), for every interleaving
\* and pool size.
C6_Deterministic ==
    (Returned /\ Len(TreeMatches(in, in.mode)) < maxResults)
        => /\ matched = SortStrings(AllAppends(in, in.mode))
           /\ scanned = AllScans(in)

\* C6: the complete result is one of the results of tree 1 ...
C6_CompleteReached ==
    Returned /\ in.fs = 1 /\ matched = SortStrings(AllAppends(in, in.mode))

\* ... and a result cut short is another.
C6_CutReached ==
    Returned /\ in.fs = 1 /\ Len(matched) < Len(AllAppends(in, in.mode))

\* Is path p a directory of tree t.
IsDirPath(t, p) ==
    \E i \in DOMAIN Trees[t].nodes : NodePath[t][i] = p /\ Trees[t].nodes[i].dir

\* C8: with mode Files no recorded path is a directory, with mode Folders
\* every recorded path is one.
C8_ModeFilter ==
    \A k \in DOMAIN matched :
        /\ in.mode = ModeFiles => ~IsDirPath(in.fs, matched[k])
        /\ in.mode = ModeFolders => IsDirPath(in.fs, matched[k])

\* C8 witness: an inline walk has just recorded a folder in mode Folders.
C8_Witness ==
    /\ in.mode = ModeFolders
    /\ \E w \in Workers : wk[w].pc = "inc" /\ Len(wk[w].st) > 1

\* C9: for a tree whose matching entries number less than maxResults, the
\* set returned with mode Files (Folders) is the set of matching files
\* (folders) the walks record, and the set returned with mode Both is the
\* union of the two.
C9_BothIsUnion ==
    (Returned /\ Len(TreeMatches(in, ModeBoth)) < maxResults)
        => Range(matched) =
             IF in.mode = ModeBoth
             THEN Range(AllAppends(in, ModeFiles)) \cup Range(AllAppends(in, ModeFolders))
             ELSE Range(AllAppends(in, in.mode))

\* The segments of a path: the maximal runs of bytes other than '/'.
RECURSIVE Segments(_)
Segments(p) ==
    IF p = <<>> THEN {}
    ELSE IF Head(p) = "/" THEN Segments(Tail(p))
    ELSE LET cut == { k \in 1..Len(p) : p[k] = "/" }
             n == IF cut = {} THEN Len(p) + 1 ELSE CHOOSE k \in cut : \A j \in cut : k <= j
         IN  {SubSeq(p, 1, n - 1)} \cup Segments(SubSeq(p, n + 1, Len(p)))

\* C10 as stated: with skipSystemDirs no returned path has a segment that
\* is in the skip-set or starts with '.'.
C10_NoSkipSegment ==
    (Returned /\ in.skipSystemDirs)
        => \A k \in DOMAIN matched :
              \A seg \in Segments(matched[k]) : ~SkipName(ToLower(seg))

\* Is path q the path p or a directory prefix of it.
IsPathPrefix(q, p) ==
    q = p \/ (Len(q) < Len(p) /\ SubSeq(p, 1, Len(q) + 1) = q \o <<"/">>)

\* C10 amended: with skipSystemDirs no recorded path is, or lies beneath,
\* a directory under root whose lowercased name is in the skip-set or
\* starts with '.'.
C10_NoPrunedDirSegment ==
    in.skipSystemDirs
        => \A k \in DOMAIN matched :
              \A i \in DOMAIN Trees[in.fs].nodes :
                 (Trees[in.fs].nodes[i].dir /\ IsPathPrefix(NodePath[in.fs][i], matched[k]))
                    => ~SkipName(ToLower(Trees[in.fs].nodes[i].name))

\* C10 witness: a search with skipSystemDirs returned matches from a tree
\* that holds a skipped directory with matching entries.
C10_Witness ==
    /\ Returned /\ in.skipSystemDirs /\ in.fs = 4
    /\ <<"/", "r", "/", "X", "d", "/", "e", "/", "T", "i">> \in Range(matched)

UpperCase == { c \in Chars : Ord[c] >= Ord["A"] /\ Ord[c] <= Ord["Z"] }

\* The same letters, whatever their case.
EqualFold(a, b) ==
    /\ Len(a) = Len(b)
    /\ \A i \in 1..Len(a) : LowerChar[a[i]] = LowerChar[b[i]]

\* C11: parallelWalk's query is the needle as typed with every upper-case
\* letter lowered, and with mode Both every path of matched has a lowercased
\* basename or a lowercased full path that contains it.
C11_MatchSound ==
    /\ mpc # "start" =>
          /\ EqualFold(query, in.rawQuery)
          /\ \A i \in 1..Len(query) : query[i] \notin UpperCase
    /\ in.mode = ModeBoth =>
          \A k \in 1..Len(matched) :
             \/ Contains(ToLower(Basename(matched[k])), ToLower(in.rawQuery))
             \/ Contains(ToLower(matched[k]), ToLower(in.rawQuery))

\* A needle typed in upper case found a name written in mixed case.
C11_Witness ==
    /\ Returned /\ in.mode = ModeBoth
    /\ in.rawQuery = qI /\ query = <<"i">>
    /\ \E k \in 1..Len(matched) : Basename(matched[k]) = <<"T", "i">>

\* Is node i of tree t a directory the walk does not descend into.
PrunedNode(t, i, skip) ==
    LET n == Trees[t].nodes[i]
    IN  n.dir /\ skip /\ SkipName(ToLower(n.name))

\* Node i lies below readable, unpruned directories only, and is not pruned
\* itself.
RECURSIVE Visible(_, _, _)
Visible(t, i, skip) ==
    LET n == Trees[t].nodes[i]
    IN  /\ Trees[t].rootOk
        /\ ~PrunedNode(t, i, skip)
        /\ n.parent # 0 =>
              /\ Trees[t].nodes[n.parent].dir /\ Trees[t].nodes[n.parent].ok
              /\ Visible(t, n.parent, skip)

\* The visible entries whose lowercased name or full path contains the needle.
MatchingNodes(c) ==
    { i \in DOMAIN Trees[c.fs].nodes :
        /\ Visible(c.fs, i, c.skipSystemDirs)
        /\ \/ Contains(ToLower(Trees[c.fs].nodes[i].name), ToLower(c.rawQuery))
           \/ Contains(ToLower(NodePath[c.fs][i]), ToLower(c.rawQuery)) }

\* C12: with mode Both and fewer matching entries than maxResults, every
\* visible entry whose lowercased basename contains the needle is returned.
C12_Complete ==
    (Returned /\ in.mode = ModeBoth /\ Cardinality(MatchingNodes(in)) < maxResults)
        => \A i \in DOMAIN Trees[in.fs].nodes :
              ( /\ Visible(in.fs, i, in.skipSystemDirs)
                /\ Contains(ToLower(Trees[in.fs].nodes[i].name), ToLower(in.rawQuery)) )
                 => NodePath[in.fs][i] \in Range(matched)

\* The call of the scenario: the tree abc/report.txt, .git/config,
\* node_modules/pkg/index.js, ABC123/ searched for 'abc' in mode Both with
\* skipSystemDirs.
AbcCall ==
    /\ in.fs = 6 /\ in.rawQuery = qabc
    /\ in.mode = ModeBoth /\ in.skipSystemDirs

pABC123 == <<"/", "r", "/", "A", "B", "C", "1", "2", "3">>
pabc == <<"/", "r", "/", "a", "b", "c">>
pReport == pabc \o <<"/", "r", "e", "p", "o", "r", "t", ".", "t", "x", "t">>

\* C13 as stated: the scenario returns exactly the two paths root/ABC123
\* and root/abc, in this order; root/abc/report.txt is not returned.
C13_ExactlyTwoPaths ==
    (Returned /\ AbcCall) => matched = <<pABC123, pabc>>

\* C13, amended: the scenario returns root/ABC123, root/abc and
\* root/abc/report.txt (whose full path contains the needle) and no other
\* path, in sorted order.
C13_DirsAndFileBelow ==
    (Returned /\ AbcCall) =>
        /\ Range(matched) = {pABC123, pabc, pReport}
        /\ IsSorted(matched)
        /\ matched[1] = pABC123 /\ matched[2] = pabc

C13_Witness ==
    /\ Returned /\ AbcCall
    /\ pReport \in Range(matched)
    /\ hist.listed[root] = 1 /\ pabc \in DOMAIN hist.listed

\* C14: when root cannot be read the call returns, with an empty list,
\* scannedCount 0 and a non-nil error, every worker exited and the queue
\* closed; nothing is ever recorded or scanned on the way.
C14_UnreadableRoot ==
    /\ [](~Trees[in.fs].rootOk => (matched = <<>> /\ scanned = 0 /\ found = 0))
    /\ (~Trees[in.fs].rootOk) ~>
          ( /\ Returned /\ panicked = NoPanic
            /\ matched = <<>> /\ scanned = 0 /\ err
            /\ closed /\ dirQueue = <<>> /\ pending = 0
            /\ \A w \in Workers : wk[w].pc = "exited" )

\* The call on the unreadable root returned after a worker tried to read it.
C14_Witness ==
    /\ Returned /\ ~Trees[in.fs].rootOk
    /\ err /\ matched = <<>> /\ closed
    /\ root \in hist.dequeued /\ hist.listed[root] = 1

\* Has the calling goroutine passed its os.ReadDir(root) of line 256.
RootRead == mpc \notin {"start", "seedAdd", "seedSend"} \/ topIdx > 0

\* The directories below a readable root that cannot be read although the
\* walk reaches them.
FailingDirs(c) ==
    { i \in DOMAIN Trees[c.fs].nodes :
        /\ Trees[c.fs].nodes[i].dir /\ ~Trees[c.fs].nodes[i].ok
        /\ Visible(c.fs, i, c.skipSystemDirs) }

\* C15: the returned error is non-nil exactly when the read of root
\* failed, whatever nested reads fail; a directory whose read fails is
\* skipped with its pending count released, and the entries outside it are
\* still searched.
C15_ErrIsRootErr ==
    /\ RootRead => (err <=> ~Trees[in.fs].rootOk)
    /\ ~RootRead => ~err
    /\ Returned =>
          /\ pending = 0
          /\ Len(appended) < maxResults =>
                \A i \in MatchingNodes(in) :
                    ModeOk(in.mode, Trees[in.fs].nodes[i].dir)
                       => NodePath[in.fs][i] \in Range(matched)

\* A call returned without error although the read of a subdirectory
\* failed, with the matches outside that subdirectory.
C15_Witness ==
    /\ Returned /\ ~err
    /\ \E i \in FailingDirs(in) :
          NodePath[in.fs][i] \in DOMAIN hist.listed
    /\ \E k \in 1..Len(matched) : Basename(matched[k]) = <<"T", "i">>

\* The goroutines between their append (lines 242, 319) and their
\* increment of found (lines 244, 321).
BetweenAppendAndInc == { w \in Workers : wk[w].pc = "inc" }

\* C16: whenever no goroutine is between its append and its increment, and
\* so once wg.Wait() returned, the length of matched equals found; matched
\* is appended to by the holder of mu only.
C16_LenIsFound ==
    /\ BetweenAppendAndInc = {} => Len(matched) = found
    /\ Returned => (BetweenAppendAndInc = {} /\ Len(matched) = found)
    /\ \A w \in Workers : wk[w].pc = "append" => mu = w

\* Matches were recorded, one goroutine holds mu for its append, and none
\* is between append and increment.
C16_Witness ==
    /\ found >= 2 /\ Len(matched) = found
    /\ BetweenAppendAndInc = {}
    /\ \E w \in Workers : wk[w].pc = "append" /\ Len(wk[w].st) > 1
    /\ \E w \in Workers : wk[w].pc = "lock"

\* C17: a directory received from dirQueue is never in dirQueue again, and
\* no directory is listed more than once by the workers and the inline
\* walks together, the first-level subdirectories of root included.
C17_ListedOnce ==
    /\ \A k \in 1..Len(dirQueue) : dirQueue[k] \notin hist.dequeued
    /\ \A p \in DOMAIN hist.listed : hist.listed[p] <= 1

\* The goroutines that did pending.Add(1) for a directory and are at the
\* send that follows it.
WorkersAtSend == { w \in Workers : wk[w].pc = "send" }

CallerAtSend == mpc = "seedSend"

QueueFull == Len(dirQueue) >= in.cap

\* C18 as stated: no submitter, worker or calling goroutine, is ever
\* blocked at its send.
C18_NoSubmitterBlocked ==
    panicked = NoPanic =>
        /\ \A w \in WorkersAtSend : ENABLED Send(w)
        /\ CallerAtSend => ENABLED SeedSend

\* C18, amended: every submitter counted its directory in pending before
\* its send; a worker is never blocked at its send; the calling goroutine
\* is blocked at its send exactly while the queue is full.
C18_OnlyCallerBlocks ==
    panicked = NoPanic =>
        /\ pending >= Len(dirQueue) + Cardinality(WorkersAtSend)
                         + (IF CallerAtSend THEN 1 ELSE 0)
        /\ \A w \in WorkersAtSend : ENABLED Send(w)
        /\ CallerAtSend => (ENABLED SeedSend <=> ~QueueFull)

\* A worker and the calling goroutine are both at their send and the
\* queue is full.
C18_Witness ==
    /\ QueueFull /\ CallerAtSend /\ topIdx > 0
    /\ WorkersAtSend # {}

\* The workers that hold a directory received from dirQueue (lines 188-248).
Holders == { w \in Workers : wk[w].st # <<>> }

\* The workers whose select took the default branch and whose
\* pending.Done() of line 225 is still to come: inside walkInline, or just
\* returned from it.
InlineWalkers == { w \in Workers : Len(wk[w].st) > 1 \/ wk[w].pc = "idone" }

\* C19: while a worker walks a subdirectory inline after finding the queue
\* full, and until its pending.Done() after the walk, the subdirectory is
\* counted in pending besides the worker's own directory, so pending is
\* positive and the queue is not closed.
C19_InlineHoldsPending ==
    /\ pending >= Cardinality(Holders) + Cardinality(InlineWalkers)
    /\ InlineWalkers # {} =>
          /\ pending > 0
          /\ ~closed /\ cpc \notin {"close", "closed"}

\* The queue is drained and the closer waits while a worker is still
\* inside a nested inline walk.
C19_Witness ==
    /\ cpc = "wait" /\ dirQueue = <<>>
    /\ \E w \in Workers :
          /\ Len(wk[w].st) > 2
          /\ \A v \in Workers \ {w} : wk[v].pc = "recv"
    /\ pending = 2

\* The directories submitted and not yet fully processed: those in the
\* queue, those a worker received and has not released, those a submitter
\* counted and is about to send, and those being walked inline.
Outstanding ==
    Len(dirQueue) + Cardinality(Holders) + Cardinality(WorkersAtSend)
        + Cardinality(InlineWalkers) + (IF CallerAtSend THEN 1 ELSE 0)

\* C20: pending equals the number of directories submitted and not yet
\* fully processed, and is never negative.
C20_PendingCountsOutstanding ==
    /\ pending = Outstanding
    /\ pending >= 0
    /\ panicked # PanicNegative

\* Directories of every kind are outstanding at once: one queued, one held
\* by a worker that walks another inline, one about to be sent.
C20_Witness ==
    /\ pending >= 4
    /\ dirQueue # <<>>
    /\ InlineWalkers # {}
    /\ WorkersAtSend # {} \/ CallerAtSend

\* A step of worker w from its cap check of line 189 taken with found at
\* the cap: no os.ReadDir, no submission, and on to pending.Done().
DrainStep(w) ==
    (wk[w].pc = "chk" /\ CapReached(found) /\ wk'[w] # wk[w]) =>
        /\ wk'[w].pc = "pdone"
        /\ hist' = hist /\ dirQueue' = dirQueue
        /\ pending' = pending /\ scanned' = scanned

\* The step of worker w that follows: pending.Done() once, and back to the
\* receive.
ReleaseStep(w) ==
    (wk[w].pc = "pdone" /\ wk'[w] # wk[w]) =>
        /\ pending' = pending - 1
        /\ wk'[w] = [pc |-> "recv", st |-> <<>>]
        /\ hist' = hist

\* C21: found never decreases, so a directory dequeued once found has
\* reached maxResults meets the cap check with found at the cap: it is not
\* listed, nothing is submitted for it, its pending count is released
\* once; and the search then ends.
C21_DrainAfterCap ==
    /\ [][ /\ found' >= found
           /\ \A w \in Workers : DrainStep(w) /\ ReleaseStep(w) ]_vars
    /\ CapReached(found) ~> (Returned /\ dirQueue = <<>> /\ pending = 0)

\* A readable directory was dequeued with found at the cap and goes to
\* pending.Done() unlisted: every ReadDir of it predates the cap.
C21_Witness ==
    /\ CapReached(found)
    /\ \E w \in Workers :
          /\ wk[w].pc = "pdone" /\ Top(wk[w].st).idx = 0
          /\ ~ReadDir(in.fs, Top(wk[w].st).dir).err
          /\ Top(wk[w].st).dir # root

\* The nodes of the call's tree that the three prune checks skip.
PrunedNodes == { i \in DOMAIN Trees[in.fs].nodes : PrunedNode(in.fs, i, in.skipSystemDirs) }

\* The directories some goroutine is working on.
DirsInFrames ==
    UNION { { wk[w].st[k].dir : k \in 1..Len(wk[w].st) } : w \in Workers }

\* The directory nodes all of whose ancestors can be read.
ReadableBelowRoot(t, i) ==
    /\ Trees[t].rootOk /\ Trees[t].nodes[i].dir
    /\ Visible(t, i, FALSE)

\* C22: the three prune checks skip an entry exactly when it is a
\* directory, skipSystemDirs is set and its lowercased name is in skipDirs
\* or starts with '.'; a pruned directory is never submitted, received,
\* listed or recorded; without skipSystemDirs nothing is pruned, and a file
\* is never pruned.
C22_Pruning ==
    /\ \A i \in DOMAIN Trees[in.fs].nodes :
          LET n == Trees[in.fs].nodes[i]
              e == [name |-> n.name, dir |-> n.dir]
              low == ToLower(n.name)
              skip == /\ n.dir /\ in.skipSystemDirs
                      /\ (low \in skipDirs \/ (low # <<>> /\ Head(low) = "."))
          IN  /\ PruneWorker(e, in.skipSystemDirs) = skip
              /\ PruneInline(e, in.skipSystemDirs) = skip
              /\ n.dir => (PruneSeed(e, in.skipSystemDirs) = skip)
              /\ (i \in PrunedNodes) = skip
    /\ \A i \in PrunedNodes :
          LET p == NodePath[in.fs][i]
          IN  /\ p \notin Range(dirQueue) /\ p \notin hist.dequeued
              /\ p \notin DOMAIN hist.listed /\ p \notin DirsInFrames
              /\ p \notin Range(matched)
    /\ (Returned /\ ~in.skipSystemDirs /\ Len(appended) < maxResults) =>
          \A i \in DOMAIN Trees[in.fs].nodes :
              ReadableBelowRoot(in.fs, i) => NodePath[in.fs][i] \in DOMAIN hist.listed
    /\ (Returned /\ Len(appended) < maxResults) =>
          \A i \in MatchingNodes(in) :
              (~Trees[in.fs].nodes[i].dir /\ ModeOk(in.mode, FALSE))
                  => NodePath[in.fs][i] \in Range(matched)

\* With skipSystemDirs the walk inspected the entries of root, one of them
\* a pruned directory, and recorded a file whose name is in skipDirs.
C22_Witness ==
    /\ Returned /\ in.skipSystemDirs
    /\ root \in DOMAIN hist.listed
    /\ \E i \in PrunedNodes : Trees[in.fs].nodes[i].parent = 0
    /\ \E k \in 1..Len(matched) : Basename(matched[k]) \in skipDirs

\* The paths of the entries the walk reaches that match the needle and the
\* mode.
ExpectedPaths(c) ==
    { NodePath[c.fs][i] :
        i \in { j \in MatchingNodes(c) : ModeOk(c.mode, Trees[c.fs].nodes[j].dir) } }

\* C23: for a tree with fewer matching entries than maxResults the set of
\* returned paths is the set of matching entries, whatever the capacity of
\* the queue and whichever subdirectories were walked inline.
C23_SameSetAnyCapacity ==
    (Returned /\ Cardinality(ExpectedPaths(in)) < maxResults)
        => Range(matched) = ExpectedPaths(in)

\* The set returned by the runs in which the worker that lists root walks
\* its subdirectories inline before another goroutine records a path: all
\* of that walk's appends.
OneRunsSet(c) == Range(TreeMatches(c, c.mode))

\* C24: when the tree holds more matching entries than maxResults every
\* interleaving returns the same set of paths, the set one of them returns.
C24_TruncationDeterministic ==
    (Returned /\ Cardinality(ExpectedPaths(in)) > maxResults)
        => Range(matched) = OneRunsSet(in)

\* C24: that set is returned by a run ...
C24_OneRunReached ==
    /\ Returned /\ Cardinality(ExpectedPaths(in)) > maxResults
    /\ Range(matched) = OneRunsSet(in)

\* ... and another set by another run of the same call.
C24_OtherRunReached ==
    /\ Returned /\ Cardinality(ExpectedPaths(in)) > maxResults
    /\ Range(matched) # OneRunsSet(in)

\* The worker goroutines that take the step.
Stepping == { w \in Workers : wk'[w] # wk[w] }

\* The goroutines between mu.Lock() and mu.Unlock().
InCritical == { w \in Workers : wk[w].pc = "append" }

\* A step that adds to matched: by the holder of mu, one path at the end.
AppendUnderLock ==
    Len(matched') > Len(matched) =>
        /\ mu # 0 /\ Stepping = {mu}
        /\ \E p \in Range(matched') : matched' = Append(matched, p)

\* A step that calls os.ReadDir, sends to or receives from dirQueue, or
\* enters or leaves walkInline is not taken by the holder of mu.
NoLockAcrossIO ==
    \A w \in Stepping :
        ( \/ hist' # hist \/ dirQueue' # dirQueue
          \/ Len(wk'[w].st) # Len(wk[w].st) ) => mu # w

\* C25: mu has at most one holder, who is at its append; matched grows
\* only by the holder's append, so no append is lost; the holder of mu
\* never reads a directory, uses the queue or walks inline.
C25_MutexDiscipline ==
    /\ [](/\ Cardinality(InCritical) <= 1
          /\ \A w \in InCritical : mu = w
          /\ mu # 0 => mu \in InCritical
          /\ Len(matched) = Len(appended))
    /\ [][AppendUnderLock /\ NoLockAcrossIO]_vars

\* One goroutine holds mu for its append inside an inline walk while the
\* other waits at mu.Lock().
C25_Witness ==
    /\ \E w \in InCritical :
          /\ mu = w /\ Len(wk[w].st) > 1
          /\ \E v \in Workers \ {w} : wk[v].pc = "lock"
    /\ matched # <<>>

\* Worker w is at a loop head with an entry to inspect and found under
\* the cap.
AtEntry(w) ==
    /\ wk[w].pc = "loop"
    /\ Top(wk[w].st).idx <= Len(Entries(Top(wk[w].st).dir))
    /\ ~CapReached(found)

\* C26: scanned never decreases; it grows by one exactly in the steps in
\* which a worker or walkInline inspects an entry, a pruned directory
\* included; once the call returned it no longer changes, and every worker
\* has exited by then.
C26_ScannedCounts ==
    /\ [][ /\ scanned' >= scanned
           /\ \A w \in Stepping : AtEntry(w) => scanned' = scanned + 1
           /\ scanned' # scanned =>
                 /\ scanned' = scanned + 1
                 /\ \E w \in Workers : Stepping = {w} /\ AtEntry(w)
           /\ Returned => scanned' = scanned ]_vars
    /\ [](Returned => \A w \in Workers : wk[w].pc = "exited")

\* A complete search whose count includes a pruned first-level directory.
C26_Witness ==
    /\ Returned /\ in.skipSystemDirs
    /\ \E i \in PrunedNodes : Trees[in.fs].nodes[i].parent = 0
    /\ scanned = AllScans(in) /\ scanned >= Len(Entries(root)) + 1

\* Can root and every directory beneath it be read.
FullyReadable(t) ==
    Trees[t].rootOk /\ \A i \in DOMAIN Trees[t].nodes : Trees[t].nodes[i].ok

\* The entries contained in root and in the non-pruned directories beneath
\* it.
ContainedEntries(c) ==
    { i \in DOMAIN Trees[c.fs].nodes :
        \/ Trees[c.fs].nodes[i].parent = 0
        \/ Visible(c.fs, Trees[c.fs].nodes[i].parent, c.skipSystemDirs) }

\* C27: for a fully readable tree with fewer matching entries than
\* maxResults the returned scannedCount is the number of entries of root
\* and of the non-pruned directories beneath it.
C27_ScannedIsEntryCount ==
    (Returned /\ FullyReadable(in.fs) /\ Cardinality(ExpectedPaths(in)) < maxResults)
        => scanned = Cardinality(ContainedEntries(in))

\* The two calls: the one whose goroutines run and the other one.
Calls == {CallState} \cup Range(other)

\* What call c returns when it runs alone and its appends stay under the
\* cap.
AloneResult(c) ==
    [ matched |-> SortStrings(AllAppends(c, c.mode)),
      scanned |-> AllScans(c),
      err |-> ~Trees[c.fs].rootOk ]

\* C28: of two calls that run at the same time, each returns what it
\* returns when it runs alone.
C28_CallsIndependent ==
    \A s \in Calls :
        (s.mpc = "returned" /\ Len(AllAppends(s.in, s.in.mode)) < maxResults)
            => [matched |-> s.matched, scanned |-> s.scanned, err |-> s.err]
                  = AloneResult(s.in)

\* One call returned its matches while the other, started before that, is
\* in the middle of its walk.
C28_Witness ==
    /\ other # <<>>
    /\ Returned /\ matched # <<>> /\ matched = AloneResult(in).matched
    /\ other[1].mpc \notin {"start", "returned"}
    /\ other[1].found > 0 /\ other[1].pending > 0

\* C29: found never exceeds the length of matched: a path is in the list
\* before it is counted.
C29_FoundAtMostLen ==
    /\ found <= Len(matched)
    /\ Len(matched) - found <= Cardinality(Workers)

\* A path recorded by walkInline is in matched and not yet counted in
\* found, which already counts an earlier one.
C29_Witness ==
    /\ found > 0 /\ found < Len(matched)
    /\ \E w \in Workers : wk[w].pc = "inc" /\ Len(wk[w].st) > 1

\* Has the calling goroutine passed its enqueue(root) of line 254.
RootSubmitted == topIdx > 0 \/ mpc \in {"go", "wgwait", "returned"}

\* Root was submitted whatever its name, and every recorded path lies
\* strictly beneath root.
RootSubmittedNeverResult ==
    /\ RootSubmitted => (root \in Range(dirQueue) \/ root \in hist.dequeued)
    /\ Returned => root \in hist.dequeued
    /\ \A k \in 1..Len(matched) :
          matched[k] # root /\ IsPathPrefix(root, matched[k])

====
